---------------------------- MODULE Spec2Model ----------------------------
(***************************************************************************)
(* Model of check_nif (src/main.rs): the remote status classifier          *)
(* check_nif_status and the local checksum validator is_nif_valid_local.   *)
(*                                                                         *)
(* A string is a sequence of Unicode code points; its Rust length is the   *)
(* number of bytes of its UTF-8 encoding.  A fetched HTML document is the  *)
(* sequence of its nodes in document order (pre-order), each node naming   *)
(* its parent (0 = the document root).  The phrase searched for in the      *)
(* success block is written in ASCII and cut in two halves, so that a text *)
(* can hold it whole, in part, or split over several text nodes.           *)
(***************************************************************************)
EXTENDS Integers, Sequences, FiniteSets

VARIABLES
    pc,          \* position of the running call
    requests,    \* number of GET requests issued by check_nif_status
    response,    \* HTTP status code of the response, 0 before there is one
    body,        \* the response body (the node sequence it parses to)
    evaluated,   \* TRUE once the marker selectors were run on a document
    failure,     \* the step that failed: "none", "transport", "status" or "body"
    status,      \* the NifStatus returned by check_nif_status, "none" before
    nif,         \* argument of is_nif_valid_local
    valido,      \* value returned by is_nif_valid_local
    panicked,    \* TRUE if is_nif_valid_local panicked instead of returning
    sum,         \* local `sum` of is_nif_valid_local when it returned
    check_digit  \* local `check_digit` of is_nif_valid_local when it returned

vars == <<pc, requests, response, body, evaluated, failure, status,
          nif, valido, panicked, sum, check_digit>>

classifierVars == <<requests, response, body, evaluated, failure, status>>
localVars == <<nif, valido, panicked, sum, check_digit>>

---------------------------------------------------------------------------
(* Bounds of the model *)

\* largest number of nodes of a fetched document
MaxNodes == 3

\* longest string over OtherAlphabet handed to is_nif_valid_local
MaxLen == 5

\* digits 3..5 of a nine-digit input range over 0..MaxMidDigit and 9
\* (digits 6..8 over 0 and 9, the others over 0..9)
MaxMidDigit == 0

---------------------------------------------------------------------------
(* NifStatus *)

NifStatus == {"ValidKnown", "ValidUnknown", "Error", "MultipleResults", "Unknown"}

---------------------------------------------------------------------------
(* HTML documents and selectors *)

\* The two halves of "O NIF indicado e valido mas nao conseguimos
\* determinar a entidade associada."
PHRASE == <<"O NIF indicado e valido ", "mas nao conseguimos determinar a entidade associada.">>

Element(classes, id) == [kind |-> "element", classes |-> classes, id |-> id, text |-> <<>>]
TextNode(text) == [kind |-> "text", classes |-> {}, id |-> "", text |-> text]

\* The elements a document of the model is made of.
ElementKinds ==
    { Element({"alert-message", "error", "block-message"}, ""),
      Element({"alert-message", "success", "block-message"}, ""),
      Element({"alert-message", "error", "success", "block-message"}, ""),
      Element({"alert-message", "error"}, ""),
      Element({}, "search-results"),
      Element({"search-title"}, ""),
      Element({"big-nif"}, ""),
      Element({"big-nif", "search-title"}, ""),
      Element({}, "") }

\* The text nodes a document of the model is made of.
TextKinds ==
    { TextNode(PHRASE), TextNode(<<PHRASE[1]>>), TextNode(<<PHRASE[2]>>),
      TextNode(<<"NIF valido">>) }

WithParent(node, p) ==
    [kind |-> node.kind, classes |-> node.classes, id |-> node.id,
     text |-> node.text, parent |-> p]

RECURSIVE AncestorsOrSelf(_, _)
\* node i of doc and its ancestors (0, the root, left out)
AncestorsOrSelf(doc, i) ==
    IF i = 0 THEN {} ELSE {i} \cup AncestorsOrSelf(doc, doc[i].parent)

\* The shapes of a document of n nodes: parents[i] is the parent of node i.
\* In document order a node hangs under the root, or under the node before
\* it or one of that node's ancestors.
RECURSIVE IsAncestorOrSelf(_, _, _)
IsAncestorOrSelf(parents, a, i) ==
    IF i = 0 THEN FALSE
    ELSE IF a = i THEN TRUE
    ELSE IsAncestorOrSelf(parents, a, parents[i])

Shapes(n) ==
    { parents \in [1..n -> 0..(n - 1)] :
        \A i \in 1..n :
            /\ parents[i] < i
            /\ parents[i] # 0 => IsAncestorOrSelf(parents, parents[i], i - 1) }

NodeKinds == ElementKinds \cup TextKinds

\* The document of the given nodes in the given shape.
Document(kinds, parents) == [i \in DOMAIN kinds |-> WithParent(kinds[i], parents[i])]

\* Only elements have children.
WellFormed(doc) == \A i \in DOMAIN doc : doc[i].parent # 0 => doc[doc[i].parent].kind = "element"

---------------------------------------------------------------------------
(* scraper: Selector, Html::select, ElementRef::select, ElementRef::text *)

\* A compound selector: the classes an element must all carry, and the id
\* it must have ("" = any).
Selector(classes, id) == [classes |-> classes, id |-> id]

error_selector == Selector({"alert-message", "error", "block-message"}, "")
success_selector == Selector({"alert-message", "success", "block-message"}, "")
search_results_selector == Selector({}, "search-results")
company_selector == Selector({"search-title"}, "")
big_nif_selector == Selector({"big-nif"}, "")

Matches(node, sel) ==
    /\ node.kind = "element"
    /\ sel.classes \subseteq node.classes
    /\ sel.id # "" => node.id = sel.id

\* i is a proper descendant of node e
IsDescendant(doc, i, e) == i # e /\ e \in AncestorsOrSelf(doc, i)

\* document.select(sel): the matching elements, in document order
Select(doc, sel) == {i \in DOMAIN doc : Matches(doc[i], sel)}

\* element.select(sel): the matching descendants of element e
SelectIn(doc, e, sel) == {i \in Select(doc, sel) : IsDescendant(doc, i, e)}

\* iterator.next(): the first element of the selection, 0 for None
First(selection) ==
    IF selection = {} THEN 0
    ELSE CHOOSE i \in selection : \A j \in selection : i <= j

RECURSIVE TextFrom(_, _, _)
\* the text nodes below e from node i on, concatenated in document order
TextFrom(doc, e, i) ==
    IF i > Len(doc) THEN <<>>
    ELSE (IF doc[i].kind = "text" /\ IsDescendant(doc, i, e) THEN doc[i].text ELSE <<>>)
         \o TextFrom(doc, e, i + 1)

\* element.text().collect::<String>()
ElementText(doc, e) == TextFrom(doc, e, 1)

\* str::contains: pat occurs in text as a contiguous run
Contains(text, pat) ==
    \E k \in 0..(Len(text) - Len(pat)) :
        \A j \in 1..Len(pat) : text[k + j] = pat[j]

---------------------------------------------------------------------------
(* check_nif_status: the marker checks on the parsed document *)

HasError(document) == First(Select(document, error_selector)) # 0

\* Mutant of SuccessIsValidUnknown: the text must be the phrase and nothing else.
SuccessIsValidUnknown_WholeText(document) ==
    LET success_div == First(Select(document, success_selector))
    IN  /\ success_div # 0
        /\ ElementText(document, success_div) = PHRASE

SuccessIsValidUnknown(document) ==
    LET success_div == First(Select(document, success_selector))
    IN  /\ success_div # 0
        /\ Contains(ElementText(document, success_div), PHRASE)

HasMultipleResults(document) ==
    LET search_results == First(Select(document, search_results_selector))
    IN  /\ search_results # 0
        /\ First(SelectIn(document, search_results, company_selector)) # 0

\* Mutant of HasKnownEntity: one of the two elements is enough.
HasKnownEntity_Either(document) ==
    \/ First(Select(document, big_nif_selector)) # 0
    \/ First(Select(document, company_selector)) # 0

HasKnownEntity(document) ==
    /\ First(Select(document, big_nif_selector)) # 0
    /\ First(Select(document, company_selector)) # 0

\* Mutant of ClassifyDocument: the success block is looked at before the error block.
ClassifyDocument_SuccessFirst(document) ==
    IF SuccessIsValidUnknown(document) THEN "ValidUnknown"
    ELSE IF HasError(document) THEN "Error"
    ELSE IF HasMultipleResults(document) THEN "MultipleResults"
    ELSE IF HasKnownEntity(document) THEN "ValidKnown"
    ELSE "Unknown"

\* Mutant of ClassifyDocument: a success block without the phrase returns at once.
ClassifyDocument_SuccessReturns(document) ==
    IF HasError(document) THEN "Error"
    ELSE IF SuccessIsValidUnknown(document) THEN "ValidUnknown"
    ELSE IF First(Select(document, success_selector)) # 0 THEN "ValidKnown"
    ELSE IF HasMultipleResults(document) THEN "MultipleResults"
    ELSE IF HasKnownEntity(document) THEN "ValidKnown"
    ELSE "Unknown"

\* Mutant of ClassifyDocument: the known-entity check comes before the multiple-results check.
ClassifyDocument_KnownFirst(document) ==
    IF HasError(document) THEN "Error"
    ELSE IF SuccessIsValidUnknown(document) THEN "ValidUnknown"
    ELSE IF HasKnownEntity(document) THEN "ValidKnown"
    ELSE IF HasMultipleResults(document) THEN "MultipleResults"
    ELSE "Unknown"

ClassifyDocument(document) ==
    IF HasError(document) THEN "Error"
    ELSE IF SuccessIsValidUnknown(document) THEN "ValidUnknown"
    ELSE IF HasMultipleResults(document) THEN "MultipleResults"
    ELSE IF HasKnownEntity(document) THEN "ValidKnown"
    ELSE "Unknown"

---------------------------------------------------------------------------
(* check_nif_status: the request *)

\* HTTP status codes the server may answer with
StatusCodes == {200, 204, 301, 404, 500}

\* Mutant of is_success: a redirect counts as a success.
is_success_Below400(code) == 200 <= code /\ code <= 399

\* StatusCode::is_success
is_success(code) == 200 <= code /\ code <= 299

NoBody == <<>>

InitClassifier ==
    /\ pc = "start"
    /\ requests = 0
    /\ response = 0
    /\ body = NoBody
    /\ evaluated = FALSE
    /\ failure = "none"
    /\ status = "none"

\* client.get(&url).send() fails: return Unknown
SendErr ==
    /\ pc = "start"
    /\ requests' = requests + 1
    /\ failure' = "transport"
    /\ status' = "Unknown"
    /\ pc' = "done"
    /\ UNCHANGED <<response, body, evaluated, localVars>>

\* client.get(&url).send() answers with some status code
SendOk ==
    /\ pc = "start"
    /\ requests' = requests + 1
    /\ \E code \in StatusCodes : response' = code
    /\ pc' = "sent"
    /\ UNCHANGED <<body, evaluated, failure, status, localVars>>

\* !response.status().is_success(): return Unknown
StatusFail ==
    /\ pc = "sent"
    /\ ~is_success(response)
    /\ failure' = "status"
    /\ status' = "Unknown"
    /\ pc' = "done"
    /\ UNCHANGED <<requests, response, body, evaluated, localVars>>

\* response.text() fails: return Unknown
ReadBodyErr ==
    /\ pc = "sent"
    /\ is_success(response)
    /\ failure' = "body"
    /\ status' = "Unknown"
    /\ pc' = "done"
    /\ UNCHANGED <<requests, response, body, evaluated, localVars>>

\* response.text() gives the body
ReadBodyOk ==
    /\ pc = "sent"
    /\ is_success(response)
    /\ \E n \in 0..MaxNodes :
         \E parents \in Shapes(n), kinds \in [1..n -> NodeKinds] :
            /\ WellFormed(Document(kinds, parents))
            /\ body' = Document(kinds, parents)
    /\ pc' = "body"
    /\ UNCHANGED <<requests, response, evaluated, failure, status, localVars>>

\* Html::parse_document(&body) and the marker checks, to the return
Classify ==
    /\ pc = "body"
    /\ evaluated' = TRUE
    /\ status' = ClassifyDocument(body)
    /\ pc' = "done"
    /\ UNCHANGED <<requests, response, body, failure, localVars>>


---------------------------------------------------------------------------
(* Rust strings: a str is a sequence of code points, stored as UTF-8 *)

\* char::len_utf8
len_utf8(c) == IF c < 128 THEN 1 ELSE IF c < 2048 THEN 2 ELSE IF c < 65536 THEN 3 ELSE 4

RECURSIVE ByteLen(_)
\* str::len: the length in bytes
ByteLen(s) == IF s = <<>> THEN 0 ELSE len_utf8(Head(s)) + ByteLen(Tail(s))

\* str::is_char_boundary
is_char_boundary(s, k) == \E n \in 0..Len(s) : ByteLen(SubSeq(s, 1, n)) = k

\* &s[0..k]: the chars of the first k bytes (used at a char boundary only)
ByteSlice(s, k) ==
    SubSeq(s, 1, CHOOSE n \in 0..Len(s) : ByteLen(SubSeq(s, 1, n)) = k)

\* char::is_digit(10): the ASCII digits '0'..'9' and no other character
is_digit(c) == 48 <= c /\ c <= 57

\* char::to_digit(10), for a char that is a digit
to_digit(c) == c - 48

\* the string of the digits ds
Str(ds) == [i \in DOMAIN ds |-> 48 + ds[i]]

---------------------------------------------------------------------------
(* is_nif_valid_local *)

Returned(value, s, cd) == [panicked |-> FALSE, value |-> value, sum |-> s, check_digit |-> cd]
Panicked == [panicked |-> TRUE, value |-> FALSE, sum |-> 0, check_digit |-> 0]

\* Mutant of NotNineDigits: only the length is checked.
NotNineDigits_LengthOnly(s) == ByteLen(s) # 9

\* nif.len() != 9 || !nif.chars().all(|c| c.is_digit(10))
NotNineDigits(s) == ByteLen(s) # 9 \/ ~(\A i \in DOMAIN s : is_digit(s[i]))

\* Mutant of valid_first: the "45" exception is missing.
valid_first_No45(first, first_two) ==
    first \in {Str(<<1>>), Str(<<2>>), Str(<<3>>), Str(<<5>>),
               Str(<<6>>), Str(<<7>>), Str(<<8>>), Str(<<9>>)}

\* matches!(first, "1" | "2" | "3" | "5" | "6" | "7" | "8" | "9") || first_two == "45"
valid_first(first, first_two) ==
    \/ first \in {Str(<<1>>), Str(<<2>>), Str(<<3>>), Str(<<5>>),
                  Str(<<6>>), Str(<<7>>), Str(<<8>>), Str(<<9>>)}
    \/ first_two = Str(<<4, 5>>)

RECURSIVE SumLoop_WeightsFromTen(_, _, _)
\* Mutant of SumLoop: the weights run from 10 down to 3.
SumLoop_WeightsFromTen(digits, i, acc) ==
    IF i >= 8 \/ i >= Len(digits) THEN acc
    ELSE SumLoop_WeightsFromTen(digits, i + 1, acc + digits[i + 1] * (10 - i))

RECURSIVE SumLoop(_, _, _)
\* for (i, d) in digits.iter().take(8).enumerate() { sum += d * (9 - i) }
\* i counts from 0; the value is not reduced modulo 2^32, so a run past the
\* u32 range shows as a sum above it.
SumLoop(digits, i, acc) ==
    IF i >= 8 \/ i >= Len(digits) THEN acc
    ELSE SumLoop(digits, i + 1, acc + digits[i + 1] * (9 - i))

\* Mutant of CheckDigit: remainders 0 and 1 are not special.
CheckDigit_NoSpecialCase(resto) == 11 - resto

\* if resto == 0 || resto == 1 { 0 } else { 11 - resto }
CheckDigit(resto) == IF resto = 0 \/ resto = 1 THEN 0 ELSE 11 - resto

is_nif_valid_local(s) ==
    IF NotNineDigits(s) THEN Returned(FALSE, 0, 0)
    ELSE IF ~is_char_boundary(s, 1) \/ ~is_char_boundary(s, 2) THEN Panicked
    ELSE IF ~valid_first(ByteSlice(s, 1), ByteSlice(s, 2)) THEN Returned(FALSE, 0, 0)
    ELSE IF \E i \in DOMAIN s : ~is_digit(s[i]) THEN Panicked   \* to_digit(10).unwrap()
    ELSE LET digits == [i \in DOMAIN s |-> to_digit(s[i])]
             total == SumLoop(digits, 0, 0)
             resto == total % 11
             cd == CheckDigit(resto)
         IN  IF Len(digits) < 9 THEN Panicked                    \* digits[8]
             ELSE Returned(cd = digits[9], total, cd)

---------------------------------------------------------------------------
(* The inputs of is_nif_valid_local *)

\* '1', 'a', e-acute (2 bytes), fullwidth digit nine (3 bytes)
OtherAlphabet == {49, 97, 233, 65305}

MidDigits == (0..MaxMidDigit) \cup {9}

Ones(n) == [i \in 1..n |-> 49]

\* nine characters, one of them no ASCII digit
NineWithOther ==
    { [Ones(9) EXCEPT ![k] = c] : k \in 1..9, c \in {32, 97, 233, 1635, 65305} }

\* strings whose byte length is 9 although they hold fewer characters,
\* and digit strings of length 8 and 10
OddLengths ==
    { [Ones(8) EXCEPT ![k] = 233] : k \in 1..8 } \cup {Ones(8), Ones(10)}

\* the NIFs main() tries
MainNifs ==
    { Str(<<1,2,3,4,5,6,7,8,9>>), Str(<<5,0,0,8,2,9,9,9,3>>), Str(<<0,0,0,0,0,0,0,0,1>>),
      Str(<<9,8,7,6,5,4,3,2,1>>), Str(<<4,5,1,2,3,4,5,6,7>>), Str(<<0,1,2,3,4,5,6,7,8>>),
      Str(<<5,0,0,9,6,0,0,4,6>>), Str(<<0,0,0,0,0,0,0,0,0>>) }

InitLocal ==
    /\ pc = "args"
    /\ nif = <<>>
    /\ valido = FALSE
    /\ panicked = FALSE
    /\ sum = 0
    /\ check_digit = 0

\* let nif_from_args = &args[1]: a string of at most MaxLen characters
ArgShort ==
    /\ pc = "args"
    /\ \E n \in 0..MaxLen : \E s \in [1..n -> OtherAlphabet] : nif' = s
    /\ pc' = "validate"
    /\ UNCHANGED <<valido, panicked, sum, check_digit, classifierVars>>

\* let nif_from_args = &args[1]: nine ASCII digits
ArgNineDigits ==
    /\ pc = "args"
    /\ \E a \in 0..9, b \in 0..9, z \in 0..9,
          m \in [1..3 -> MidDigits], h \in [1..3 -> {0, 9}] :
           nif' = Str(<<a, b>> \o m \o h \o <<z>>)
    /\ pc' = "validate"
    /\ UNCHANGED <<valido, panicked, sum, check_digit, classifierVars>>

\* let nif_from_args = &args[1]: one of the other strings
ArgOther ==
    /\ pc = "args"
    /\ \E s \in NineWithOther \cup OddLengths \cup MainNifs : nif' = s
    /\ pc' = "validate"
    /\ UNCHANGED <<valido, panicked, sum, check_digit, classifierVars>>

\* let valido = is_nif_valid_local(nif)
Validate ==
    /\ pc = "validate"
    /\ LET r == is_nif_valid_local(nif)
       IN  /\ valido' = r.value
           /\ panicked' = r.panicked
           /\ sum' = r.sum
           /\ check_digit' = r.check_digit
    /\ pc' = "validated"
    /\ UNCHANGED <<nif, classifierVars>>

---------------------------------------------------------------------------
(* Specifications *)

\* one call of check_nif_status
Init ==
    /\ InitClassifier
    /\ nif = <<>> /\ valido = FALSE /\ panicked = FALSE /\ sum = 0 /\ check_digit = 0

Next ==
    \/ SendErr
    \/ SendOk
    \/ StatusFail
    \/ ReadBodyErr
    \/ ReadBodyOk
    \/ Classify

Spec == Init /\ [][Next]_vars

\* one call of is_nif_valid_local
InitValidator ==
    /\ InitLocal
    /\ requests = 0 /\ response = 0 /\ body = NoBody /\ evaluated = FALSE
    /\ failure = "none" /\ status = "none"

NextValidator ==
    \/ ArgShort
    \/ ArgNineDigits
    \/ ArgOther
    \/ Validate

SpecLocal == InitValidator /\ [][NextValidator]_vars


---------------------------------------------------------------------------
(* The markers of a document, as the specification words them *)

IsErrorMarker(node) ==
    /\ node.kind = "element"
    /\ "alert-message" \in node.classes
    /\ "error" \in node.classes
    /\ "block-message" \in node.classes

IsSuccessMarker(node) ==
    /\ node.kind = "element"
    /\ "alert-message" \in node.classes
    /\ "success" \in node.classes
    /\ "block-message" \in node.classes

IsResultsContainer(node) == node.kind = "element" /\ node.id = "search-results"
IsSearchTitle(node) == node.kind = "element" /\ "search-title" \in node.classes
IsBigNif(node) == node.kind = "element" /\ "big-nif" \in node.classes

ErrorMarkers(doc) == {i \in DOMAIN doc : IsErrorMarker(doc[i])}
SuccessMarkers(doc) == {i \in DOMAIN doc : IsSuccessMarker(doc[i])}
ResultsContainers(doc) == {i \in DOMAIN doc : IsResultsContainer(doc[i])}
SearchTitles(doc) == {i \in DOMAIN doc : IsSearchTitle(doc[i])}
BigNifs(doc) == {i \in DOMAIN doc : IsBigNif(doc[i])}

\* the first of a non-empty set of nodes, in document order
Earliest(nodes) == CHOOSE i \in nodes : \A j \in nodes : i <= j

HasPhrase(doc, e) == Contains(ElementText(doc, e), PHRASE)
HoldsTitle(doc, e) == \E t \in SearchTitles(doc) : IsDescendant(doc, t, e)

\* some success marker / the first success marker holds the phrase
SomeSuccessHasPhrase(doc) == \E e \in SuccessMarkers(doc) : HasPhrase(doc, e)
FirstSuccessHasPhrase(doc) ==
    SuccessMarkers(doc) # {} /\ HasPhrase(doc, Earliest(SuccessMarkers(doc)))

\* some results container / the first results container holds a search title
SomeContainerHoldsTitle(doc) == \E e \in ResultsContainers(doc) : HoldsTitle(doc, e)
FirstContainerHoldsTitle(doc) ==
    ResultsContainers(doc) # {} /\ HoldsTitle(doc, Earliest(ResultsContainers(doc)))

BigNifAndTitle(doc) == BigNifs(doc) # {} /\ SearchTitles(doc) # {}

\* what the checks after the success check give
LaterChecks(doc) ==
    IF FirstContainerHoldsTitle(doc) THEN "MultipleResults"
    ELSE IF BigNifAndTitle(doc) THEN "ValidKnown"
    ELSE "Unknown"

\* the document with its success markers no longer marked as such
WithoutSuccessMarkers(doc) ==
    [i \in DOMAIN doc |->
        IF IsSuccessMarker(doc[i])
        THEN [doc[i] EXCEPT !.classes = @ \ {"success"}]
        ELSE doc[i]]

\* the call fetched a document and classified it
Classified == pc = "done" /\ evaluated

---------------------------------------------------------------------------
(* Claims on check_nif_status *)

\* C1: a fetched document that holds an error marker is classified Error,
\* whatever other markers it holds.
C1_ErrorMarkerWins ==
    (Classified /\ ErrorMarkers(body) # {}) => status = "Error"

C1_Witness ==
    /\ Classified
    /\ ErrorMarkers(body) # {}
    /\ SomeSuccessHasPhrase(body)
    /\ status = "Error"

\* C2: a transport failure, a non-success status or a body-read failure ends
\* the call with Unknown at that step: no marker was evaluated, exactly one
\* request was issued and the call makes no further step; no call ever issues
\* more than one request.
C2_FailureIsUnknown ==
    /\ requests <= 1
    /\ failure # "none" =>
         /\ pc = "done"
         /\ status = "Unknown"
         /\ ~evaluated
         /\ requests = 1
         /\ body = NoBody
    /\ (pc = "done" /\ response # 0 /\ ~(response \in 200..299)) => failure = "status"
    /\ (pc = "done" /\ response = 0) => failure = "transport"
    /\ evaluated => failure = "none" /\ response \in 200..299

C2_Witness ==
    /\ pc = "done"
    /\ failure = "status"
    /\ response = 301
    /\ status = "Unknown"
    /\ ~evaluated

\* C3 as stated: a fetched document without error marker in which some
\* success marker holds the phrase is classified ValidUnknown.
C3_SomeSuccessMarkerWithPhrase ==
    (Classified /\ ErrorMarkers(body) = {} /\ SomeSuccessHasPhrase(body))
        => status = "ValidUnknown"

\* C3, amended: a fetched document without error marker whose first success
\* marker (in document order) holds the phrase is classified ValidUnknown,
\* whatever results container, search title or big-nif it also holds.
C3_FirstSuccessMarkerWithPhrase ==
    (Classified /\ ErrorMarkers(body) = {} /\ FirstSuccessHasPhrase(body))
        => status = "ValidUnknown"

C3_Witness ==
    /\ Classified
    /\ ErrorMarkers(body) = {}
    /\ FirstSuccessHasPhrase(body)
    /\ BigNifAndTitle(body)
    /\ status = "ValidUnknown"

\* C4: a fetched document without error marker whose success marker is
\* present but lacks the phrase is never classified ValidUnknown: it gets the
\* result of the later checks, which is the result of the same document
\* without its success markers.
C4_SuccessWithoutPhraseFallsThrough ==
    (/\ Classified
     /\ ErrorMarkers(body) = {}
     /\ SuccessMarkers(body) # {}
     /\ ~FirstSuccessHasPhrase(body))
        => /\ status \in NifStatus \ {"Error", "ValidUnknown"}
           /\ status = LaterChecks(body)
           /\ status = ClassifyDocument(WithoutSuccessMarkers(body))

C4_Witness ==
    /\ Classified
    /\ ErrorMarkers(body) = {}
    /\ SuccessMarkers(body) # {}
    /\ ~SomeSuccessHasPhrase(body)
    /\ status = "MultipleResults"

\* C5 as stated: without error marker and phrase-bearing success marker, a
\* document in which some results container holds a search title is
\* classified MultipleResults; ValidKnown only with big-nif and search title
\* present and no results container holding a search title.
C5_SomeContainerWithTitle ==
    (Classified /\ ErrorMarkers(body) = {} /\ ~SomeSuccessHasPhrase(body))
        => /\ SomeContainerHoldsTitle(body) => status = "MultipleResults"
           /\ status = "ValidKnown" =>
                (BigNifAndTitle(body) /\ ~SomeContainerHoldsTitle(body))

\* C5, amended: without error marker and phrase-bearing success marker, a
\* document whose first results container (in document order) holds a search
\* title is classified MultipleResults, also when a big-nif is present;
\* ValidKnown only with big-nif and search title present and the first
\* results container, if any, holding no search title.
C5_FirstContainerWithTitle ==
    (Classified /\ ErrorMarkers(body) = {} /\ ~SomeSuccessHasPhrase(body))
        => /\ FirstContainerHoldsTitle(body) => status = "MultipleResults"
           /\ status = "ValidKnown" =>
                (BigNifAndTitle(body) /\ ~FirstContainerHoldsTitle(body))

C5_Witness ==
    /\ Classified
    /\ ErrorMarkers(body) = {}
    /\ SuccessMarkers(body) = {}
    /\ FirstContainerHoldsTitle(body)
    /\ BigNifs(body) # {}
    /\ status = "MultipleResults"

\* C6: a fetched document that none of the four rules matches is classified
\* Unknown: a document without any marker, a big-nif without search title, a
\* search title outside any results container without big-nif, results
\* containers that hold no search title.
C6_NoRuleIsUnknown ==
    Classified =>
        /\ (/\ ErrorMarkers(body) = {}
            /\ ~FirstSuccessHasPhrase(body)
            /\ ~FirstContainerHoldsTitle(body)
            /\ ~BigNifAndTitle(body)) => status = "Unknown"
        /\ (/\ ErrorMarkers(body) = {} /\ SuccessMarkers(body) = {}
            /\ ResultsContainers(body) = {}
            /\ BigNifs(body) = {} /\ SearchTitles(body) = {}) => status = "Unknown"
        /\ (/\ ErrorMarkers(body) = {} /\ SuccessMarkers(body) = {}
            /\ BigNifs(body) # {} /\ SearchTitles(body) = {}) => status = "Unknown"
        /\ (/\ ErrorMarkers(body) = {} /\ SuccessMarkers(body) = {}
            /\ SearchTitles(body) # {} /\ ResultsContainers(body) = {}
            /\ BigNifs(body) = {}) => status = "Unknown"
        /\ (/\ ErrorMarkers(body) = {} /\ SuccessMarkers(body) = {}
            /\ ResultsContainers(body) # {} /\ ~SomeContainerHoldsTitle(body)
            /\ ~BigNifAndTitle(body)) => status = "Unknown"

C6_Witness ==
    /\ Classified
    /\ ErrorMarkers(body) = {}
    /\ SuccessMarkers(body) = {}
    /\ BigNifs(body) # {}
    /\ SearchTitles(body) = {}
    /\ ResultsContainers(body) # {}
    /\ status = "Unknown"

---------------------------------------------------------------------------
(* Claims on is_nif_valid_local *)

\* s matches ^[0-9]{9}$
IsNineDigits(s) == Len(s) = 9 /\ \A i \in 1..9 : s[i] \in 48..57

\* digit i (from 0) of a nine-digit string
D(s, i) == s[i + 1] - 48

AllowedPrefix(s) == D(s, 0) \in {1, 2, 3, 5, 6, 7, 8, 9} \/ (D(s, 0) = 4 /\ D(s, 1) = 5)

WeightedSum(s) ==
    D(s, 0) * 9 + D(s, 1) * 8 + D(s, 2) * 7 + D(s, 3) * 6 +
    D(s, 4) * 5 + D(s, 5) * 4 + D(s, 6) * 3 + D(s, 7) * 2

ExpectedCheckDigit(s) ==
    LET remainder == WeightedSum(s) % 11
    IN  IF remainder \in {0, 1} THEN 0 ELSE 11 - remainder

Validated == pc = "validated"

\* C7: a string that does not match ^[0-9]{9}$ is rejected, without a panic.
C7_NotNineDigitsIsFalse ==
    (Validated /\ ~IsNineDigits(nif)) => (valido = FALSE /\ ~panicked)

\* nine bytes, but not nine characters
C7_Witness ==
    /\ Validated
    /\ ByteLen(nif) = 9
    /\ Len(nif) < 9
    /\ valido = FALSE
    /\ ~panicked

\* C8: a nine-digit string is valid exactly when its prefix is allowed and
\* its ninth digit is the expected check digit.
C8_ValidIffPrefixAndCheckDigit ==
    (Validated /\ IsNineDigits(nif)) =>
        /\ ~panicked
        /\ valido <=> (AllowedPrefix(nif) /\ D(nif, 8) = ExpectedCheckDigit(nif))
        /\ D(nif, 0) = 0 => ~valido
        /\ (D(nif, 0) = 4 /\ D(nif, 1) # 5) => ~valido

C8_Witness ==
    /\ Validated
    /\ IsNineDigits(nif)
    /\ D(nif, 0) = 4
    /\ D(nif, 1) = 5
    /\ valido

\* C9 as stated: "123456789" is rejected: its weighted sum is 165, a multiple
\* of 11, so the expected check digit is 0 and not 9.
C9_ExampleIsFalse ==
    (Validated /\ nif = Str(<<1, 2, 3, 4, 5, 6, 7, 8, 9>>)) =>
        /\ sum = 165
        /\ sum % 11 = 0
        /\ check_digit = 0
        /\ valido = FALSE

\* C9, amended: "123456789" is accepted: its weighted sum is 156, 156 mod 11
\* is 2, so the expected check digit is 9, the last digit.
C9_ExampleIsTrue ==
    (Validated /\ nif = Str(<<1, 2, 3, 4, 5, 6, 7, 8, 9>>)) =>
        /\ ~panicked
        /\ sum = 156
        /\ sum % 11 = 2
        /\ check_digit = 9
        /\ valido = TRUE

C9_Witness ==
    /\ Validated
    /\ nif = Str(<<1, 2, 3, 4, 5, 6, 7, 8, 9>>)
    /\ valido = TRUE

\* C10: for a nine-digit string with an allowed prefix the weighted sum lies
\* in 0..396 (far below 2^32), the check digit in 0..9, and exactly one ninth
\* digit makes the string valid.
C10_OneCheckDigit ==
    (Validated /\ IsNineDigits(nif) /\ AllowedPrefix(nif)) =>
        /\ sum \in 0..396
        /\ sum = WeightedSum(nif)
        /\ check_digit \in 0..9
        /\ Cardinality({z \in 0..9 :
                is_nif_valid_local([nif EXCEPT ![9] = 48 + z]).value}) = 1

\* remainder 1, where 11 - remainder is no digit
C10_Witness ==
    /\ Validated
    /\ IsNineDigits(nif)
    /\ AllowedPrefix(nif)
    /\ sum % 11 = 1
    /\ check_digit = 0
    /\ valido

=============================================================================
